---- MODULE Spec2Model ----
(***************************************************************************)
(* A model of the asynchronous orchestration layer of dkg.js:              *)
(*   - AbstractClient._getResult        (Operation Result Resolver)        *)
(*   - AbstractClient._getSearchResult  (Streaming Search Poller)          *)
(*   - NodeBlockchainService.createAsset and the executors it drives       *)
(*   - Utilities.deriveUAL / resolveUAL (UAL codec)                        *)
(*   - AbstractClient.validate and _performValidation (Proof Validator)    *)
(* Every `await` of the JavaScript source is a suspension point: one       *)
(* action of the model runs the code from one suspension point to the      *)
(* next.                                                                   *)
(***************************************************************************)
EXTENDS Integers, Sequences, FiniteSets, TLC

(***************************************************************************)
(* Bounds of the model and constants of the program.                       *)
(***************************************************************************)
\* largest maxNumberOfRetries a caller passes explicitly
MaxOptRetries == 2
\* AbstractClient.defaultMaxNumberOfRetries
defaultMaxNumberOfRetries == 5
\* largest numberOfResults a caller passes explicitly, and largest small
\* result count the node reports
MaxCount == 2
\* AbstractClient.defaultNumberOfResults
defaultNumberOfResults == 2000
\* ticks of the search poller the model follows
MaxTicks == 3
\* read calls one callContractFunction invocation is followed through
MaxCalls == 2
\* web3.utils.toWei('900', 'Kwei'): the gas limit used when the estimate is 0
GasFloor == 900000
\* longest chain identifier, contract address and locator text the UAL
\* codec is applied to, and the largest token id
MaxChainLen == 5
MaxContractLen == 2
MaxUalLen == 5
MaxTokenId == 11
\* most assertions one _performValidation invocation is given
MaxAssertions == 2

PENDING == "PENDING"
COMPLETED == "COMPLETED"
FAILED == "FAILED"

\* STATUSES of AbstractClient
STATUSES == [pending |-> PENDING, completed |-> COMPLETED, failed |-> FAILED]

\* JavaScript's undefined, for string-valued fields
UNDEFINED == "undefined"

(***************************************************************************)
(* The node, seen from the client: what one status request can answer.     *)
(***************************************************************************)
Payloads == {"payloadA", "payloadB"}
Messages == {"bad request", "timeout on node"}
TransportErrors == {"ECONNREFUSED", "HTTP 500"}

\* response.data of one status request
NodeAnswers ==
    {[status |-> PENDING, data |-> UNDEFINED, message |-> UNDEFINED]}
    \cup {[status |-> COMPLETED, data |-> d, message |-> UNDEFINED] : d \in Payloads}
    \cup {[status |-> FAILED, data |-> UNDEFINED, message |-> m] : m \in Messages}

\* options.handler_id / options.operation as the callers build them; "" is a
\* missing (falsy) value
HandlerIds == {"", "h1"}
Operations == {"", "resolve", "proofs:get"}

\* Numeric options: 0 stands for every falsy value (0 or a missing option),
\* which the code treats alike; -1 is a negative value given by mistake.
CtorRetryOptions == -1 .. MaxOptRetries
CallRetryOptions == 0 .. MaxOptRetries

\* searchResponse.data: the full result list of one tick; items stands for
\* itemListElement (its length is all the poller reads), tag tells two
\* payloads of the same length apart.
ResultCounts == (0 .. MaxCount) \cup {defaultNumberOfResults}
SearchPayloads == [items : ResultCounts, tag : {"a", "b"}]
NoPayload == [items |-> 0, tag |-> UNDEFINED]
CtorResultOptions == -1 .. MaxCount
CallResultOptions == 0 .. MaxCount

VARIABLES
    \* ---- Operation Result Resolver (_getResult) ----
    rPc,          \* position of the invocation
    rThisMax,     \* this.maxNumberOfRetries
    rOptions,     \* the options object of the invocation
    rRetries,     \* local retries
    rMax,         \* local maxNumberOfRetries
    rResponse,    \* local response(.data)
    rRequests,    \* number of status requests issued so far
    rAnswers,     \* what happened to each status request, in order
    rOutcome,     \* what the caller receives
    \* ---- Streaming Search Poller (_getSearchResult) ----
    sPc,          \* position of the invocation
    sThisResults, \* this.numberOfResults
    sOptions,     \* the options object of the invocation
    sTarget,      \* local numberOfResults
    sCurrent,     \* local currentNumberOfResults
    sTimeoutFlag, \* local timeoutFlag
    sTimerArmed,  \* the one-shot timer is pending
    sDeadlineTicks, \* number of fetches issued when the timer fired
    sResponse,    \* local searchResponse(.data)
    sTicks,       \* number of fetches issued so far
    sFetched,     \* what happened to each fetch, in order
    sCallbacks,   \* the arguments of the callback's invocations, in order
    sOutcome,     \* what the caller receives
    \* ---- NodeBlockchainService: the fields of the one service instance ----
    blockchain,            \* this.blockchain (a record of config.blockchainConfig)
    web3,                  \* this.web3 (the endpoint it is connected to)
    hubContract,           \* this.hubContract
    AssetRegistryContract, \* this.AssetRegistryContract
    UAIRegistryContract,   \* this.UAIRegistryContract
    TokenContract,         \* this.TokenContract
    \* ---- the createAsset invocations in flight on that instance ----
    op,                    \* per invocation: position, locals, request in flight
    \* ---- Utilities: one use of the UAL codec ----
    uPc,          \* position of the use
    uInput,       \* the arguments given to deriveUAL
    uUal,         \* the locator text
    uOutcome,     \* what resolveUAL returned or raised
    \* ---- AbstractClient.validate ----
    vPc,          \* position of the invocation
    vOptions,     \* the options object of the invocation
    vResult,      \* local result
    vOutcome,     \* what the caller receives
    \* ---- AbstractClient._performValidation ----
    pPc,               \* position of the invocation
    pAssertions,       \* the assertions it is given
    pIndex,            \* the assertion the outer loop is at
    pRootHashes,       \* the root hash fetched for each assertion so far
    pValidationResult, \* local validationResult
    pOutcome           \* what the caller receives

rvars == <<rPc, rThisMax, rOptions, rRetries, rMax, rResponse, rRequests,
           rAnswers, rOutcome>>

svars == <<sPc, sThisResults, sOptions, sTarget, sCurrent, sTimeoutFlag,
           sTimerArmed, sDeadlineTicks, sResponse, sTicks, sFetched, sCallbacks,
           sOutcome>>

avars == <<blockchain, web3, hubContract, AssetRegistryContract,
           UAIRegistryContract, TokenContract, op>>

uvars == <<uPc, uInput, uUal, uOutcome>>

vvars == <<vPc, vOptions, vResult, vOutcome>>

pvars == <<pPc, pAssertions, pIndex, pRootHashes, pValidationResult, pOutcome>>

vars == <<rvars, svars, avars, uvars, vvars, pvars>>

\* The components share no state: a step of one leaves the others alone.
\* validate and _performValidation call into the resolver: their steps say
\* themselves what they do to it.
ResolverOnly == UNCHANGED <<svars, avars, uvars, vvars, pvars>>
SearchOnly == UNCHANGED <<rvars, avars, uvars, vvars, pvars>>
AssetOnly == UNCHANGED <<rvars, svars, uvars, vvars, pvars>>
CodecOnly == UNCHANGED <<rvars, svars, avars, vvars, pvars>>
ValidateOnly == UNCHANGED <<svars, avars, uvars, pvars>>
ValidationOnly == UNCHANGED <<svars, avars, uvars, vvars>>

(***************************************************************************)
(* Operation Result Resolver                                               *)
(***************************************************************************)
NoOutcome == [kind |-> "none", value |-> UNDEFINED]
Returned(v) == [kind |-> "returned", value |-> v]
Raised(e) == [kind |-> "raised", value |-> e]

\* constructor: options.maxNumberOfRetries && options.maxNumberOfRetries >= 0
\*                ? options.maxNumberOfRetries : this.defaultMaxNumberOfRetries
ConstructorMaxNumberOfRetries(opt) ==
    IF opt # 0 /\ opt >= 0 THEN opt ELSE defaultMaxNumberOfRetries

\* options.maxNumberOfRetries ? options.maxNumberOfRetries : this.maxNumberOfRetries
EffectiveMaxNumberOfRetries(opt, thisMax) ==
    IF opt # 0 THEN opt ELSE thisMax

MissingArgsError ==
    [type |-> "Error", text |-> <<"Unable to get results, need handler id and operation">>]
RetriesExhaustedError ==
    [type |-> "Error", text |-> <<"Unable to get results. Max number of retries reached.">>]
OperationFailedErrorNoReason(operation, message) ==
    [type |-> "Error", text |-> <<"Get ", operation, " failed.">>]
\* `Get ${options.operation} failed. Reason: ${response.data.message}.`
OperationFailedError(operation, message) ==
    [type |-> "Error", text |-> <<"Get ", operation, " failed. Reason: ", message, ".">>]
TransportError(e) == [type |-> "TransportError", text |-> <<e>>]

RetriesExceededEarly(retries, max) == retries >= max
RetriesExceededLate(retries, max) == retries > max + 1
\* if (retries > maxNumberOfRetries)
RetriesExceeded(retries, max) == retries > max

StillPendingNever(response) == FALSE
\* while (response.data.status === this.STATUSES.pending)
StillPending(response) == response.status = STATUSES.pending

\* if (response.data.status === this.STATUSES.failed)
IsFailed(response) == response.status = STATUSES.failed

\* The head of one iteration of the do-while loop, up to the sleep.
GetResultLoopHead(retries, max) ==
    IF RetriesExceeded(retries, max)
    THEN /\ rPc' = "raised"
         /\ rOutcome' = Raised(RetriesExhaustedError)
         /\ rRetries' = retries
    ELSE /\ rRetries' = retries + 1
         /\ rPc' = "sleep"
         /\ rOutcome' = rOutcome

\* After the loop: raise on FAILED, return response.data otherwise.
GetResultAfterLoop(response) ==
    IF IsFailed(response)
    THEN /\ rPc' = "raised"
         /\ rOutcome' = Raised(OperationFailedError(rOptions.operation, response.message))
    ELSE /\ rPc' = "returned"
         /\ rOutcome' = Returned(response)

\* A caller invokes _getResult(options); the function suspends in its first
\* sleep (500 ms).
GetResultCall ==
    /\ ResolverOnly
    /\ rPc = "idle"
    /\ \E h \in HandlerIds, operation \in Operations, m \in CallRetryOptions :
          rOptions' = [handler_id |-> h, operation |-> operation, maxNumberOfRetries |-> m]
    /\ rPc' = "settle"
    /\ UNCHANGED <<rThisMax, rRetries, rMax, rResponse, rRequests, rAnswers, rOutcome>>

\* The settle delay is over: argument check, locals, first loop head.
GetResultSettled ==
    /\ ResolverOnly
    /\ rPc = "settle"
    /\ IF rOptions.handler_id = "" \/ rOptions.operation = ""
       THEN /\ rPc' = "raised"
            /\ rOutcome' = Raised(MissingArgsError)
            /\ UNCHANGED <<rRetries, rMax, rResponse>>
       ELSE /\ rResponse' = [status |-> STATUSES.pending, data |-> UNDEFINED,
                             message |-> UNDEFINED]
            /\ rMax' = EffectiveMaxNumberOfRetries(rOptions.maxNumberOfRetries, rThisMax)
            /\ GetResultLoopHead(0, rMax')
    /\ UNCHANGED <<rThisMax, rOptions, rRequests, rAnswers>>

\* The poll-interval sleep is over: the status request is sent.
GetResultSlept ==
    /\ ResolverOnly
    /\ rPc = "sleep"
    /\ rPc' = "request"
    /\ rRequests' = rRequests + 1
    /\ UNCHANGED <<rThisMax, rOptions, rRetries, rMax, rResponse, rAnswers, rOutcome>>

\* The node answers the status request.
GetResultResponse ==
    /\ ResolverOnly
    /\ rPc = "request"
    /\ \E ans \in NodeAnswers :
          /\ rResponse' = ans
          /\ rAnswers' = Append(rAnswers, ans)
          /\ IF StillPending(ans)
             THEN GetResultLoopHead(rRetries, rMax)
             ELSE GetResultAfterLoop(ans) /\ rRetries' = rRetries
    /\ UNCHANGED <<rThisMax, rOptions, rMax, rRequests>>

\* What the history records for a request that failed in the transport.
TransportFailure(e) == [status |-> "TRANSPORT_ERROR", data |-> UNDEFINED, message |-> e]

GetResultCatchAndRetry(e) == GetResultLoopHead(rRetries, rMax)
\* catch (e) { this.logger.error(e); throw e; }
GetResultCatch(e) ==
    /\ rPc' = "raised"
    /\ rOutcome' = Raised(TransportError(e))
    /\ rRetries' = rRetries

\* The status request fails in the transport.
GetResultTransportError ==
    /\ ResolverOnly
    /\ rPc = "request"
    /\ \E e \in TransportErrors :
          /\ rAnswers' = Append(rAnswers, TransportFailure(e))
          /\ GetResultCatch(e)
    /\ UNCHANGED <<rThisMax, rOptions, rMax, rResponse, rRequests>>

ResolverStart(thisMax) ==
    /\ rPc = "idle"
    /\ rThisMax = thisMax
    /\ rOptions = [handler_id |-> "", operation |-> "", maxNumberOfRetries |-> 0]
    /\ rRetries = 0
    /\ rMax = 0
    /\ rResponse = [status |-> UNDEFINED, data |-> UNDEFINED, message |-> UNDEFINED]
    /\ rRequests = 0
    /\ rAnswers = <<>>
    /\ rOutcome = NoOutcome

NextResolver ==
    \/ GetResultCall
    \/ GetResultSettled
    \/ GetResultSlept
    \/ GetResultResponse
    \/ GetResultTransportError

(***************************************************************************)
(* Streaming Search Poller                                                 *)
(***************************************************************************)
\* constructor: options.numberOfResults && options.numberOfResults >= 0
\*                ? options.numberOfResults : this.defaultNumberOfResults
ConstructorNumberOfResults(opt) ==
    IF opt # 0 /\ opt >= 0 THEN opt ELSE defaultNumberOfResults

\* options.numberOfResults ? options.numberOfResults : this.numberOfResults
EffectiveNumberOfResults(opt, thisResults) ==
    IF opt # 0 THEN opt ELSE thisResults

SearchMissingHandlerError ==
    [type |-> "Error", text |-> <<"Unable to get results, need handler id">>]

ContinuePollingWhileEmpty(timeoutFlag, numberOfResults, current) ==
    (~timeoutFlag \/ current = 0) /\ numberOfResults > current
ContinuePollingIgnoringDeadline(timeoutFlag, numberOfResults, current) ==
    numberOfResults > current
ContinuePollingPastTarget(timeoutFlag, numberOfResults, current) ==
    ~timeoutFlag /\ numberOfResults >= current
\* while (!timeoutFlag && numberOfResults > currentNumberOfResults)
ContinuePolling(timeoutFlag, numberOfResults, current) ==
    ~timeoutFlag /\ numberOfResults > current

\* What the history records for one fetch.
Fetched(payload) == [error |-> UNDEFINED, data |-> payload]
FetchFailure(e) == [error |-> e, data |-> NoPayload]

\* A caller invokes _getSearchResult(options, cb): argument check, locals,
\* the deadline timer is armed, and the function suspends in the first sleep.
SearchCall ==
    /\ SearchOnly
    /\ sPc = "idle"
    /\ \E h \in HandlerIds, n \in CallResultOptions :
          /\ sOptions' = [handler_id |-> h, numberOfResults |-> n]
          /\ IF h = ""
             THEN /\ sPc' = "raised"
                  /\ sOutcome' = Raised(SearchMissingHandlerError)
                  /\ UNCHANGED <<sTarget, sCurrent, sTimeoutFlag, sTimerArmed, sResponse>>
             ELSE /\ sResponse' = NoPayload
                  /\ sTarget' = EffectiveNumberOfResults(n, sThisResults)
                  /\ sTimeoutFlag' = FALSE
                  /\ sCurrent' = sTarget'
                  /\ sTimerArmed' = TRUE
                  /\ sPc' = "sleep"
                  /\ sOutcome' = sOutcome
    /\ UNCHANGED <<sThisResults, sDeadlineTicks, sTicks, sFetched, sCallbacks>>

\* setTimeout(() => { timeoutFlag = true; }, timeoutInSeconds * 1000): the
\* timer fires while the poller is suspended.
SearchTimeout ==
    /\ SearchOnly
    /\ sTimerArmed
    /\ sPc \in {"sleep", "fetch"}
    /\ sTimeoutFlag' = TRUE
    /\ sTimerArmed' = FALSE
    /\ sDeadlineTicks' = sTicks
    /\ UNCHANGED <<sPc, sThisResults, sOptions, sTarget, sCurrent, sResponse, sTicks,
                   sFetched, sCallbacks, sOutcome>>

\* The poll-interval sleep is over: the fetch is sent.
SearchSlept ==
    /\ SearchOnly
    /\ sPc = "sleep"
    /\ sTicks < MaxTicks
    /\ sPc' = "fetch"
    /\ sTicks' = sTicks + 1
    /\ UNCHANGED <<sThisResults, sOptions, sTarget, sCurrent, sTimeoutFlag, sTimerArmed,
                   sDeadlineTicks, sResponse, sFetched, sCallbacks, sOutcome>>

SearchResponseSkipsLastCallback ==
    /\ SearchOnly
    /\ sPc = "fetch"
    /\ \E payload \in SearchPayloads :
          /\ sFetched' = Append(sFetched, Fetched(payload))
          /\ sResponse' = payload
          /\ sCurrent' = payload.items
          /\ IF ContinuePolling(sTimeoutFlag, sTarget, sCurrent')
             THEN /\ sPc' = "sleep"
                  /\ sOutcome' = sOutcome
                  /\ sCallbacks' = Append(sCallbacks, payload)
             ELSE /\ sPc' = "returned"
                  /\ sOutcome' = Returned(sResponse')
                  /\ sCallbacks' = sCallbacks
    /\ UNCHANGED <<sThisResults, sOptions, sTarget, sTimeoutFlag, sTimerArmed,
                   sDeadlineTicks, sTicks>>
\* The node answers the fetch: count, callback, loop condition.
SearchResponse ==
    /\ SearchOnly
    /\ sPc = "fetch"
    /\ \E payload \in SearchPayloads :
          /\ sFetched' = Append(sFetched, Fetched(payload))
          /\ sResponse' = payload
          /\ sCurrent' = payload.items
          /\ sCallbacks' = Append(sCallbacks, payload)
          /\ IF ContinuePolling(sTimeoutFlag, sTarget, sCurrent')
             THEN /\ sPc' = "sleep"
                  /\ sOutcome' = sOutcome
             ELSE /\ sPc' = "returned"
                  /\ sOutcome' = Returned(sResponse')
    /\ UNCHANGED <<sThisResults, sOptions, sTarget, sTimeoutFlag, sTimerArmed,
                   sDeadlineTicks, sTicks>>

SearchCatchReturnsPartial(e) ==
    /\ sPc' = "returned"
    /\ sOutcome' = Returned(sResponse)
\* catch (e) { this.logger.error(e); throw e; }
SearchCatch(e) ==
    /\ sPc' = "raised"
    /\ sOutcome' = Raised(TransportError(e))

\* The fetch fails in the transport: the assignment to searchResponse, the
\* count and the callback of this tick are skipped.
SearchTransportError ==
    /\ SearchOnly
    /\ sPc = "fetch"
    /\ \E e \in TransportErrors :
          /\ sFetched' = Append(sFetched, FetchFailure(e))
          /\ SearchCatch(e)
    /\ UNCHANGED <<sThisResults, sOptions, sTarget, sCurrent, sTimeoutFlag, sTimerArmed,
                   sDeadlineTicks, sResponse, sTicks, sCallbacks>>

SearchStart(thisResults) ==
    /\ sPc = "idle"
    /\ sThisResults = thisResults
    /\ sOptions = [handler_id |-> "", numberOfResults |-> 0]
    /\ sTarget = 0
    /\ sCurrent = 0
    /\ sTimeoutFlag = FALSE
    /\ sTimerArmed = FALSE
    /\ sDeadlineTicks = 0
    /\ sResponse = NoPayload
    /\ sTicks = 0
    /\ sFetched = <<>>
    /\ sCallbacks = <<>>
    /\ sOutcome = NoOutcome

NextSearch ==
    \/ SearchCall
    \/ SearchTimeout
    \/ SearchSlept
    \/ SearchResponse
    \/ SearchTransportError

(***************************************************************************)
(* NodeBlockchainService: configuration and JavaScript values              *)
(***************************************************************************)
\* The createAsset invocations a caller has in flight on one instance.
Ops == {"op1", "op2"}
\* the invocation the caller issues first
FirstOp == "op1"

\* AVAILABLE_BLOCKCHAINS, and the chains config.blockchainConfig has a record
\* for; config.blockchain is the default chain.
AvailableChains == {"chainA", "chainB", "chainC"}
ConfiguredChains == {"chainA", "chainB"}
DefaultChain == "chainA"
\* options.blockchain as callers give it: "" is a missing option, "chainX" a
\* chain that is not available
ChainOptions == {"", "chainA", "chainB", "chainC", "chainX"}

\* what estimateGas can answer: zero, or a real estimate
GasEstimates == {0, 21000}

NoRef == <<>>
blockchainConfig ==
    [c \in ConfiguredChains |->
        [rpc |-> <<"rpc", c>>, wallet |-> <<"wallet", c>>,
         privateKey |-> <<"key", c>>, hubContract |-> <<"hub", c>>, title |-> c]]

\* JavaScript values held by `result` and by contract addresses
Undefined == [t |-> "undefined", v |-> <<>>]
True == [t |-> "boolean", v |-> <<"true">>]
Str(v) == [t |-> "string", v |-> v]
Receipt(fn, rpc) == [t |-> "receipt", v |-> <<fn>> \o rpc]
\* !value
Falsy(value) ==
    \/ value.t = "undefined"
    \/ value.t = "string" /\ value.v = <<>>
    \/ value.t = "boolean" /\ value.v # <<"true">>

\* new this.web3.eth.Contract(ABI, address): bound to the provider of the
\* web3 instance that creates it
Contract(provider, address) == [provider |-> provider, address |-> address]
NoContract == Contract(NoRef, Undefined)

\* A request in flight to the chain or to the signer.
NoRequest ==
    [kind |-> "none", rpc |-> NoRef, to |-> Undefined, from |-> NoRef,
     key |-> NoRef, gas |-> 0, name |-> ""]
CallRequest(contract, name) ==
    [NoRequest EXCEPT !.kind = "call", !.rpc = contract.provider,
                      !.to = contract.address, !.name = name]
EstimateGasRequest(contract, fn, from) ==
    [NoRequest EXCEPT !.kind = "estimateGas", !.rpc = contract.provider,
                      !.to = contract.address, !.from = from, !.name = fn]
SignRequest(tx, key, fn) ==
    [NoRequest EXCEPT !.kind = "sign", !.to = tx.to, !.from = tx.from,
                      !.gas = tx.gas, !.key = key, !.name = fn]
SendRequest(rpc, signed) ==
    [signed EXCEPT !.kind = "send", !.rpc = rpc]

\* The locals of one createAsset invocation and of the function it awaits.
IdleOp ==
    [stage |-> "idle",        \* where createAsset / initializeContracts stands
     at |-> "none",           \* the await the invocation is suspended in
     options |-> "",          \* options.blockchain
     selected |-> "",         \* the chain getBlockchain chose for it
     contractInstance |-> NoContract, \* the executor's contractInstance
     functionName |-> "",     \* the executor's functionName
     args |-> "",             \* the executor's args (the name looked up)
     result |-> Undefined,    \* the executor's result
     gasLimit |-> 0,          \* executeContractFunction's gasLimit
     req |-> NoRequest,       \* the request in flight
     tries |-> 0,             \* attempts the executor has begun
     fails |-> 0,             \* attempts of it that threw
     lastValue |-> Undefined, \* what its last successful call / broadcast gave
     threw |-> "",            \* the primitive whose exception its catch block caught
     lookups |-> <<>>,        \* the names initializeContracts has asked the hub for
     lookupsDone |-> 0,       \* how many of these lookups have returned
     receiptId |-> 0,         \* the _UAI in the logs of its 'createAsset' receipt
     outcome |-> NoOutcome]   \* what the caller of createAsset receives

ConfigurationMissingError ==
    [type |-> "Error", text |-> <<"Blockchain configuration is missing.">>]
ReceiptTypeError ==
    [type |-> "TypeError", text |-> <<"Cannot read properties of undefined (reading 'forEach')">>]

\* The hex digits of the string getTransactionResponse returns, after "0x".
UAIHexDigits == [i \in 1 .. 64 |-> IF i = 64 THEN 6 ELSE 0]
RECURSIVE ParseHex(_, _)
ParseHex(digits, n) ==
    IF n = 0 THEN 0 ELSE 16 * ParseHex(digits, n - 1) + digits[n]
\* Utilities.toNumber: parseInt(hex.slice(2), 16)
toNumber(digits) == ParseHex(digits, Len(digits))

(***************************************************************************)
(* getBlockchain                                                           *)
(***************************************************************************)
\* blockchainIsAvailable
blockchainIsAvailable(option) == option \in AvailableChains

\* The chain whose record getBlockchain assigns to this.blockchain, or ""
\* when it throws "Blockchain configuration is missing."
getBlockchain(option) ==
    IF option # "" /\ blockchainIsAvailable(option)
    THEN IF option \in ConfiguredChains THEN option ELSE ""
    ELSE IF DefaultChain \in ConfiguredChains THEN DefaultChain ELSE ""

(***************************************************************************)
(* callContractFunction                                                    *)
(***************************************************************************)
\* what the hub at the end of `contract` answers to getContractAddress(name)
HubAnswer(contract, name) == Str(<<name>> \o contract.provider)

\* callContractFunction(contractInstance, functionName, args) up to its await
BeginCall(o, stage, contract, functionName, name) ==
    [op[o] EXCEPT !.stage = stage, !.at = "call",
                  !.contractInstance = contract, !.functionName = functionName,
                  !.args = name,
                  !.result = Undefined, !.tries = 1, !.fails = 0,
                  !.lastValue = Undefined, !.threw = "",
                  !.lookups = Append(@, name),
                  !.req = CallRequest(contract, name)]

\* The executor returns: its caller is resumed with `result`, and the other
\* locals of the executor are gone.
ExecutorReturns(frame) ==
    [frame EXCEPT !.at = "ret", !.req = NoRequest, !.contractInstance = NoContract,
                  !.functionName = "", !.args = "", !.gasLimit = 0]

\* catch (error) { result = true; ... } and the loop test that follows
CallCatch(frame) ==
    ExecutorReturns([frame EXCEPT !.result = True, !.fails = @ + 1, !.threw = frame.at])

\* result = await ...call(); and the loop test that follows
CallSucceeded(frame, value) ==
    IF Falsy(value)
    THEN [frame EXCEPT !.result = value, !.lastValue = value, !.tries = @ + 1]
    ELSE ExecutorReturns([frame EXCEPT !.result = value, !.lastValue = value])

(***************************************************************************)
(* executeContractFunction                                                 *)
(***************************************************************************)
\* One pass of the loop body up to the await of estimateGas.
BeginAttempt(frame, wallet) ==
    [frame EXCEPT !.at = "estimateGas", !.tries = @ + 1,
                  !.req = EstimateGasRequest(frame.contractInstance,
                                             frame.functionName, wallet)]

\* executeContractFunction(contractInstance, functionName, args) up to its
\* first await
BeginExecute(o, stage, contract, fn, wallet) ==
    BeginAttempt([op[o] EXCEPT !.stage = stage, !.contractInstance = contract,
                               !.functionName = fn, !.result = Undefined,
                               !.gasLimit = 0, !.tries = 0, !.fails = 0,
                               !.lastValue = Undefined, !.threw = ""],
                 wallet)

ExecuteCatchRethrows(frame) ==
    [IdleOp EXCEPT !.stage = "raised", !.options = frame.options,
                   !.selected = frame.selected, !.lookups = frame.lookups,
                   !.lookupsDone = frame.lookupsDone,
                   !.outcome = Raised([type |-> "Error", text |-> <<frame.at>>])]
\* catch (error) { result = true; ... } and the loop test that follows; the
\* exception came from the primitive the attempt was at
ExecuteCatch(frame) ==
    ExecutorReturns([frame EXCEPT !.result = True, !.fails = @ + 1, !.threw = frame.at])

TxGasNoFloor(gasLimit) == gasLimit
\* gas: gasLimit || this.web3.utils.toWei('900', 'Kwei')
TxGas(gasLimit) == IF gasLimit # 0 THEN gasLimit ELSE GasFloor

(***************************************************************************)
(* createAsset, one action per stretch between two awaits                  *)
(***************************************************************************)
\* createAsset ends: its caller receives the outcome, its locals are gone.
Ended(frame, outcome) ==
    [IdleOp EXCEPT !.stage = outcome.kind, !.options = frame.options,
                   !.selected = frame.selected, !.lookups = frame.lookups,
                   !.lookupsDone = frame.lookupsDone,
                   !.receiptId = frame.receiptId, !.outcome = outcome]

Wallet == blockchainConfig[blockchain].wallet
PrivateKey == blockchainConfig[blockchain].privateKey

\* createAsset(requestData, options) is invoked: getBlockchain, new Web3,
\* initializeContracts up to the await of its first lookup.
CreateAssetCall(o) ==
    /\ AssetOnly
    /\ op[o].stage = "idle"
    /\ o # FirstOp => op[FirstOp].stage # "idle"
    /\ \E option \in ChainOptions :
          LET chain == getBlockchain(option) IN
          IF chain = ""
          THEN /\ op' = [op EXCEPT ![o] =
                            Ended([@ EXCEPT !.options = option],
                                  Raised(ConfigurationMissingError))]
               /\ UNCHANGED <<blockchain, web3, hubContract>>
          ELSE /\ blockchain' = chain
               /\ web3' = blockchainConfig[chain].rpc
               /\ hubContract' = Contract(web3', Str(blockchainConfig[chain].hubContract))
               /\ op' = [op EXCEPT ![o] =
                            [BeginCall(o, "AssetRegistry", hubContract', "getContractAddress", "AssetRegistry")
                                EXCEPT !.options = option, !.selected = chain]]
    /\ UNCHANGED <<AssetRegistryContract, UAIRegistryContract, TokenContract>>

\* The read call in flight answers with a value.
CallAnswered(o) ==
    /\ AssetOnly
    /\ op[o].at = "call"
    /\ \E value \in {HubAnswer(op[o].contractInstance, op[o].args), Str(<<>>)} :
          /\ Falsy(value) => op[o].tries < MaxCalls
          /\ op' = [op EXCEPT ![o] = CallSucceeded(@, value)]
    /\ UNCHANGED <<blockchain, web3, hubContract, AssetRegistryContract,
                   UAIRegistryContract, TokenContract>>

\* The read call in flight throws.
CallThrew(o) ==
    /\ AssetOnly
    /\ op[o].at = "call"
    /\ op' = [op EXCEPT ![o] = CallCatch(@)]
    /\ UNCHANGED <<blockchain, web3, hubContract, AssetRegistryContract,
                   UAIRegistryContract, TokenContract>>

LookupReturnedKeepsTokenContract(o) ==
    /\ AssetOnly
    /\ op[o].at = "ret"
    /\ op[o].stage \in {"AssetRegistry", "UAIRegistry", "Token"}
    /\ LET made == Contract(web3, op[o].result) IN
       CASE op[o].stage = "AssetRegistry" ->
              /\ AssetRegistryContract' = made
              /\ op' = [op EXCEPT ![o] =
                           [BeginCall(o, "UAIRegistry", hubContract, "getContractAddress",
                                      "UAIRegistry")
                               EXCEPT !.lookupsDone = @ + 1]]
              /\ UNCHANGED <<UAIRegistryContract, TokenContract>>
         [] op[o].stage = "UAIRegistry" ->
              /\ UAIRegistryContract' = made
              /\ op' = [op EXCEPT ![o] =
                           IF TokenContract = NoContract
                           THEN [BeginCall(o, "Token", hubContract, "getContractAddress",
                                           "Token")
                                    EXCEPT !.lookupsDone = @ + 1]
                           ELSE [@ EXCEPT !.stage = "initialized", !.lookupsDone = @ + 1]]
              /\ UNCHANGED <<AssetRegistryContract, TokenContract>>
         [] op[o].stage = "Token" ->
              /\ TokenContract' = made
              /\ op' = [op EXCEPT ![o] =
                           [@ EXCEPT !.stage = "initialized", !.lookupsDone = @ + 1]]
              /\ UNCHANGED <<AssetRegistryContract, UAIRegistryContract>>
    /\ UNCHANGED <<blockchain, web3, hubContract>>
\* initializeContracts resumes with the address of one lookup: it builds the
\* contract and starts the next lookup, or returns after the third.
LookupReturned(o) ==
    /\ AssetOnly
    /\ op[o].at = "ret"
    /\ op[o].stage \in {"AssetRegistry", "UAIRegistry", "Token"}
    /\ LET made == Contract(web3, op[o].result) IN
       CASE op[o].stage = "AssetRegistry" ->
              /\ AssetRegistryContract' = made
              /\ op' = [op EXCEPT ![o] =
                           [BeginCall(o, "UAIRegistry", hubContract, "getContractAddress",
                                      "UAIRegistry")
                               EXCEPT !.lookupsDone = @ + 1]]
              /\ UNCHANGED <<UAIRegistryContract, TokenContract>>
         [] op[o].stage = "UAIRegistry" ->
              /\ UAIRegistryContract' = made
              /\ op' = [op EXCEPT ![o] =
                           [BeginCall(o, "Token", hubContract, "getContractAddress",
                                      "Token")
                               EXCEPT !.lookupsDone = @ + 1]]
              /\ UNCHANGED <<AssetRegistryContract, TokenContract>>
         [] op[o].stage = "Token" ->
              /\ TokenContract' = made
              /\ op' = [op EXCEPT ![o] =
                           [@ EXCEPT !.stage = "initialized", !.lookupsDone = @ + 1]]
              /\ UNCHANGED <<AssetRegistryContract, UAIRegistryContract>>
    /\ UNCHANGED <<blockchain, web3, hubContract>>

\* createAsset resumes after initializeContracts and starts the
\* 'increaseAllowance' transaction on this.TokenContract.
InitializeReturned(o) ==
    /\ AssetOnly
    /\ op[o].at = "ret"
    /\ op[o].stage = "initialized"
    /\ op' = [op EXCEPT ![o] =
                 BeginExecute(o, "increaseAllowance", TokenContract, "increaseAllowance", Wallet)]
    /\ UNCHANGED <<blockchain, web3, hubContract, AssetRegistryContract,
                   UAIRegistryContract, TokenContract>>

\* estimateGas answers: encodeABI, the envelope, and signTransaction is
\* awaited; encodeABI may throw. The envelope's gasPrice is the same in every
\* transaction and is not carried.
EstimateAnswered(o) ==
    /\ AssetOnly
    /\ op[o].at = "estimateGas"
    /\ \E gas \in GasEstimates, encodes \in BOOLEAN :
          IF encodes
          THEN LET tx == [from |-> Wallet, to |-> op[o].contractInstance.address,
                          gas |-> TxGas(gas)]
               IN op' = [op EXCEPT ![o] =
                            [@ EXCEPT !.gasLimit = gas, !.at = "sign",
                                      !.req = SignRequest(tx, PrivateKey, op[o].functionName)]]
          ELSE op' = [op EXCEPT ![o] = ExecuteCatch([op[o] EXCEPT !.at = "encodeABI"])]
    /\ UNCHANGED <<blockchain, web3, hubContract, AssetRegistryContract,
                   UAIRegistryContract, TokenContract>>

\* signTransaction answers: sendSignedTransaction is awaited.
SignAnswered(o) ==
    /\ AssetOnly
    /\ op[o].at = "sign"
    /\ op' = [op EXCEPT ![o] = [@ EXCEPT !.at = "send", !.req = SendRequest(web3, op[o].req)]]
    /\ UNCHANGED <<blockchain, web3, hubContract, AssetRegistryContract,
                   UAIRegistryContract, TokenContract>>

\* The token ids the asset registry may assign; two assets never get the
\* same one.
AssignedIds == {6, 7}
\* the _UAI the registry writes to the logs of the receipt of `fn`
LoggedIds(o, fn) ==
    IF fn = "createAsset"
    THEN AssignedIds \ {op[other].receiptId : other \in Ops \ {o}}
    ELSE {0}

\* sendSignedTransaction answers with the receipt.
SendAnswered(o) ==
    /\ AssetOnly
    /\ op[o].at = "send"
    /\ \E id \in LoggedIds(o, op[o].functionName) :
          LET receipt == Receipt(op[o].functionName, op[o].req.rpc) IN
          op' = [op EXCEPT ![o] =
                    ExecutorReturns([@ EXCEPT !.result = receipt, !.lastValue = receipt,
                                              !.receiptId = id])]
    /\ UNCHANGED <<blockchain, web3, hubContract, AssetRegistryContract,
                   UAIRegistryContract, TokenContract>>

\* estimateGas, signTransaction or sendSignedTransaction throws.
ExecuteThrew(o) ==
    /\ AssetOnly
    /\ op[o].at \in {"estimateGas", "sign", "send"}
    /\ op' = [op EXCEPT ![o] = ExecuteCatch(@)]
    /\ UNCHANGED <<blockchain, web3, hubContract, AssetRegistryContract,
                   UAIRegistryContract, TokenContract>>

\* createAsset resumes after 'increaseAllowance' and starts the 'createAsset'
\* transaction on this.AssetRegistryContract.
AllowanceReturned(o) ==
    /\ AssetOnly
    /\ op[o].at = "ret"
    /\ op[o].stage = "increaseAllowance"
    /\ op' = [op EXCEPT ![o] =
                 BeginExecute(o, "createAsset", AssetRegistryContract, "createAsset", Wallet)]
    /\ UNCHANGED <<blockchain, web3, hubContract, AssetRegistryContract,
                   UAIRegistryContract, TokenContract>>

\* createAsset resumes with the receipt and awaits getTransactionResponse,
\* which reads receipt.logs.
CreateReturned(o) ==
    /\ AssetOnly
    /\ op[o].at = "ret"
    /\ op[o].stage = "createAsset"
    /\ IF op[o].result.t = "receipt"
       THEN op' = [op EXCEPT ![o] = [@ EXCEPT !.stage = "getTransactionResponse"]]
       ELSE op' = [op EXCEPT ![o] = Ended(@, Raised(ReceiptTypeError))]
    /\ UNCHANGED <<blockchain, web3, hubContract, AssetRegistryContract,
                   UAIRegistryContract, TokenContract>>

\* createAsset resumes with UAIHex and returns Utilities.toNumber(UAIHex).
ResponseReturned(o) ==
    /\ AssetOnly
    /\ op[o].at = "ret"
    /\ op[o].stage = "getTransactionResponse"
    /\ op' = [op EXCEPT ![o] = Ended(@, Returned(toNumber(UAIHexDigits)))]
    /\ UNCHANGED <<blockchain, web3, hubContract, AssetRegistryContract,
                   UAIRegistryContract, TokenContract>>

AssetStart ==
    /\ blockchain = ""
    /\ web3 = NoRef
    /\ hubContract = NoContract
    /\ AssetRegistryContract = NoContract
    /\ UAIRegistryContract = NoContract
    /\ TokenContract = NoContract
    /\ op = [o \in Ops |-> IdleOp]

NextAsset ==
    \E o \in Ops :
        \/ CreateAssetCall(o)
        \/ CallAnswered(o)
        \/ CallThrew(o)
        \/ LookupReturned(o)
        \/ InitializeReturned(o)
        \/ EstimateAnswered(o)
        \/ SignAnswered(o)
        \/ SendAnswered(o)
        \/ ExecuteThrew(o)
        \/ AllowanceReturned(o)
        \/ CreateReturned(o)
        \/ ResponseReturned(o)

(***************************************************************************)
(* Utilities: the UAL codec.  A string is the sequence of its characters.  *)
(***************************************************************************)
SeqsUpTo(S, n) == UNION {[1 .. k -> S] : k \in 0 .. n}

\* The characters chain identifiers and contract addresses are drawn from,
\* and the characters of an arbitrary text handed to resolveUAL.
ChainChars == {"o", "t", "p", "O", ":"}
ContractChars == {"a", "B"}
UalChars == {"d", ":", "/", "1"}
\* a chain identifier begins and ends with a letter; ":" separates its parts
ChainNames ==
    {chain \in SeqsUpTo(ChainChars, MaxChainLen) \ {<<>>} :
        chain[1] # ":" /\ chain[Len(chain)] # ":"}
ContractAddresses == SeqsUpTo(ContractChars, MaxContractLen) \ {<<>>}
TokenIds == 0 .. MaxTokenId
UalTexts == SeqsUpTo(UalChars, MaxUalLen)

LowerChar(c) ==
    CASE c = "O" -> "o"
      [] c = "B" -> "b"
      [] OTHER -> c
\* String.prototype.toLowerCase
toLowerCase(str) == [i \in 1 .. Len(str) |-> LowerChar(str[i])]

\* String.prototype.startsWith
startsWith(str, prefix) ==
    Len(str) >= Len(prefix) /\ SubSeq(str, 1, Len(prefix)) = prefix

\* String.prototype.split with a one-character separator: the pieces between
\* the separators, <<str>> when there is none.
RECURSIVE split(_, _)
split(str, sep) ==
    IF \A i \in 1 .. Len(str) : str[i] # sep
    THEN <<str>>
    ELSE LET first == CHOOSE i \in 1 .. Len(str) :
                          str[i] = sep /\ \A j \in 1 .. i - 1 : str[j] # sep
         IN <<SubSeq(str, 1, first - 1)>> \o split(SubSeq(str, first + 1, Len(str)), sep)

DigitChars == <<"0", "1", "2", "3", "4", "5", "6", "7", "8", "9">>
IsDigit(c) == \E d \in 1 .. Len(DigitChars) : DigitChars[d] = c
DigitValue(c) == (CHOOSE d \in 1 .. Len(DigitChars) : DigitChars[d] = c) - 1

\* `${tokenId}`: the decimal digits of a non-negative integer
RECURSIVE ToDecimal(_)
ToDecimal(n) ==
    IF n < Len(DigitChars)
    THEN <<DigitChars[n + 1]>>
    ELSE ToDecimal(n \div Len(DigitChars)) \o <<DigitChars[(n % Len(DigitChars)) + 1]>>

Number(n) == [t |-> "number", v |-> ToDecimal(n)]
NaN == [t |-> "number", v |-> <<"NaN">>]

\* the value of the longest prefix of str[i ..] made of decimal digits
RECURSIVE ParseDigits(_, _, _)
ParseDigits(str, i, acc) ==
    IF i > Len(str) \/ ~IsDigit(str[i])
    THEN acc
    ELSE ParseDigits(str, i + 1, acc * Len(DigitChars) + DigitValue(str[i]))

\* parseInt(str, 10): NaN unless the text begins with a digit
parseInt(str) ==
    IF str = <<>> \/ ~IsDigit(str[1]) THEN NaN ELSE Number(ParseDigits(str, 1, 0))

DidDkg == <<"d", "i", "d", ":", "d", "k", "g", ":">>
Otp == <<"o", "t", "p">>

\* Utilities.deriveUAL
deriveUAL(chain, contract, tokenId) ==
    DidDkg \o (IF startsWith(chain, Otp) THEN Otp ELSE toLowerCase(chain))
           \o <<"/">> \o toLowerCase(contract) \o <<"/">> \o ToDecimal(tokenId)

\* segments[i] of JavaScript (indices from 0): undefined past the end
At(segments, i) == IF i + 1 <= Len(segments) THEN Str(segments[i + 1]) ELSE Undefined

\* a + b of JavaScript on strings and undefined
Plus(a, b) ==
    CASE a.t = "string" /\ b.t = "string" -> Str(a.v \o b.v)
      [] a.t = "string" /\ b.t = "undefined" -> Str(a.v \o <<"u", "n", "d", "e", "f", "i", "n", "e", "d">>)
      [] a.t = "undefined" /\ b.t = "string" -> Str(<<"u", "n", "d", "e", "f", "i", "n", "e", "d">> \o b.v)
      [] OTHER -> NaN

\* new Error(`UAL doesn't have correct format: ${ual}`)
UALFormatError(ual) ==
    [type |-> "Error", text |-> <<"UAL doesn't have correct format: ">>, ual |-> ual]
\* what calling .split on a value that is not a string raises
SplitTypeError ==
    [type |-> "TypeError", text |-> <<"argsString.split is not a function">>, ual |-> <<>>]

\* Utilities.resolveUAL
resolveUAL(ual) ==
    LET segments == split(ual, ":")
        argsString == IF Len(segments) = 3
                      THEN At(segments, 2)
                      ELSE Plus(At(segments, 2), At(segments, 3))
    IN IF argsString.t # "string"
       THEN Raised(SplitTypeError)
       ELSE LET args == split(argsString.v, "/")
            IN IF Len(args) # 3
               THEN Raised(UALFormatError(ual))
               ELSE Returned([blockchain |-> args[1], contract |-> args[2],
                              tokenId |-> parseInt(args[3])])

NoInput == [blockchain |-> <<>>, contract |-> <<>>, tokenId |-> 0]

\* A caller builds the locator of (chain, contract, tokenId).
DeriveUALCall ==
    /\ CodecOnly
    /\ uPc = "idle"
    /\ \E chain \in ChainNames, contract \in ContractAddresses, tokenId \in TokenIds :
          /\ uInput' = [blockchain |-> chain, contract |-> contract, tokenId |-> tokenId]
          /\ uUal' = deriveUAL(chain, contract, tokenId)
    /\ uPc' = "derived"
    /\ UNCHANGED uOutcome

\* The locator just built is given to resolveUAL.
ResolveDerivedUAL ==
    /\ CodecOnly
    /\ uPc = "derived"
    /\ uOutcome' = resolveUAL(uUal)
    /\ uPc' = "resolved"
    /\ UNCHANGED <<uInput, uUal>>

\* A caller gives resolveUAL a text it received from elsewhere.
ResolveUALCall ==
    /\ CodecOnly
    /\ uPc = "idle"
    /\ \E ual \in UalTexts :
          /\ uUal' = ual
          /\ uOutcome' = resolveUAL(ual)
    /\ uPc' = "parsed"
    /\ UNCHANGED uInput

CodecStart ==
    /\ uPc = "idle"
    /\ uInput = NoInput
    /\ uUal = <<>>
    /\ uOutcome = NoOutcome

NextCodec ==
    \/ DeriveUALCall
    \/ ResolveDerivedUAL
    \/ ResolveUALCall

(***************************************************************************)
(* AbstractClient.validate                                                 *)
(***************************************************************************)
ValidateMissingArgsError ==
    [type |-> "Error", text |-> <<"Please provide assertions and nquads in order to get proofs.">>]
UnableToGetProofsError ==
    [type |-> "Error", text |-> <<"Unable to get proofs for given nquads">>]

\* The value of a call of an async function that has not been awaited.
PromiseOf(fn) == [t |-> "promise", v |-> <<fn>>]
\* value.status: a promise has no such property
StatusProperty(value) == IF value.t = "promise" THEN UNDEFINED ELSE value.v[1]

\* A caller invokes validate(options): argument check, then the proofs:get
\* request is sent.
ValidateCall ==
    /\ ValidateOnly
    /\ vPc = "idle"
    /\ \E nquads \in BOOLEAN, m \in CallRetryOptions :
          /\ vOptions' = [nquads |-> nquads, maxNumberOfRetries |-> m]
          /\ IF ~nquads
             THEN /\ vPc' = "raised"
                  /\ vOutcome' = Raised(ValidateMissingArgsError)
             ELSE /\ vPc' = "proofsRequest"
                  /\ vOutcome' = vOutcome
    /\ UNCHANGED <<vResult, rvars>>

\* The node accepts the proofs:get request: _getResult is called, which runs
\* up to its first sleep and hands back a promise; validate does not await
\* it, reads result.status and goes on.
ValidateProofsAnswered ==
    /\ ValidateOnly
    /\ vPc = "proofsRequest"
    /\ \E h \in HandlerIds :
          rOptions' = [handler_id |-> h, operation |-> "proofs:get",
                       maxNumberOfRetries |-> vOptions.maxNumberOfRetries]
    /\ rPc' = "settle"
    /\ vResult' = PromiseOf("_getResult")
    /\ IF StatusProperty(vResult') # STATUSES.completed
       THEN /\ vPc' = "raised"
            /\ vOutcome' = Raised(UnableToGetProofsError)
       ELSE /\ vPc' = "validating"
            /\ vOutcome' = vOutcome
    /\ UNCHANGED <<vOptions, rThisMax, rRetries, rMax, rResponse, rRequests, rAnswers,
                   rOutcome>>

\* The proofs:get request fails in the transport: catch (e) { throw e; }
ValidateProofsFailed ==
    /\ ValidateOnly
    /\ vPc = "proofsRequest"
    /\ \E e \in TransportErrors :
          /\ vPc' = "raised"
          /\ vOutcome' = Raised(TransportError(e))
    /\ UNCHANGED <<vOptions, vResult, rvars>>

ValidateStart ==
    /\ vPc = "idle"
    /\ vOptions = [nquads |-> FALSE, maxNumberOfRetries |-> 0]
    /\ vResult = Undefined
    /\ vOutcome = NoOutcome

NextValidate ==
    \/ ValidateCall
    \/ ValidateProofsAnswered
    \/ ValidateProofsFailed
    \/ GetResultSettled
    \/ GetResultSlept
    \/ GetResultResponse
    \/ GetResultTransportError

(***************************************************************************)
(* AbstractClient._performValidation                                       *)
(***************************************************************************)
\* obj.proof of a triple the assertion holds no proof for
NULL == "null"
\* obj.proof: null, or an inclusion path, named by the payload whose root
\* hash the path folds to
ProofValues == {NULL} \cup Payloads
\* the proofs of one assertion, by their obj.proof
ProofLists ==
    {<<>>, <<NULL>>, <<"payloadA">>, <<NULL, "payloadA">>, <<"payloadB", NULL>>,
     <<"payloadA", "payloadB">>, <<"payloadA", NULL, "payloadB">>}

\* The k-th assertion of the input: its triples are told apart by position.
Assertion(k, proofs) ==
    [assertionId |-> k,
     proofs |-> [i \in 1 .. Len(proofs) |-> [triple |-> <<k, i>>, proof |-> proofs[i]]]]
AssertionLists ==
    UNION {{[k \in 1 .. n |-> Assertion(k, choice[k])] : choice \in [1 .. n -> ProofLists]} :
              n \in 0 .. MaxAssertions}

False == [t |-> "boolean", v |-> <<"false">>]

\* result.data[0][assertionId].rootHash of a resolved payload
RootHashOf(payload) == <<"rootHash", payload>>

\* _validateProof(obj, rootHash): its body is commented out, it returns
\* undefined
ValidateProof(obj, rootHash) == Undefined

HasNoProofNever(obj) == FALSE
\* if (obj.proof === null)
HasNoProof(obj) == obj.proof = NULL

\* The inner loop over assertion.proofs, from the i-th proof on: what it
\* appends to validationResult.
RECURSIVE ValidatedTriples(_, _, _)
ValidatedTriples(proofs, i, rootHash) ==
    IF i > Len(proofs) THEN <<>>
    ELSE IF HasNoProof(proofs[i])
         THEN ValidatedTriples(proofs, i + 1, rootHash)
         ELSE <<[triple |-> proofs[i].triple, valid |-> ValidateProof(proofs[i], rootHash)]>>
                  \o ValidatedTriples(proofs, i + 1, rootHash)

\* The head of the outer loop at assertion k: _fetchRootHash and resolve up
\* to the await of the resolve request, or the return after the last one.
PerformValidationLoopHead(assertions, k, validationResult) ==
    /\ pIndex' = k
    /\ pValidationResult' = validationResult
    /\ IF k > Len(assertions)
       THEN /\ pPc' = "returned"
            /\ pOutcome' = Returned(validationResult)
       ELSE /\ pPc' = "resolveRequest"
            /\ pOutcome' = pOutcome

\* A caller invokes _performValidation(assertions).
PerformValidationCall ==
    /\ ValidationOnly
    /\ pPc = "idle"
    /\ \E assertions \in AssertionLists :
          /\ pAssertions' = assertions
          /\ PerformValidationLoopHead(assertions, 1, <<>>)
    /\ UNCHANGED <<pRootHashes, rvars>>

\* The node accepts the resolve request: resolve calls _getResult and returns
\* its promise, which _fetchRootHash awaits.
ResolveRequestAnswered ==
    /\ ValidationOnly
    /\ pPc = "resolveRequest"
    /\ \E h \in HandlerIds :
          rOptions' = [handler_id |-> h, operation |-> "resolve", maxNumberOfRetries |-> 0]
    /\ rPc' = "settle"
    /\ pPc' = "getResult"
    /\ UNCHANGED <<pAssertions, pIndex, pRootHashes, pValidationResult, pOutcome,
                   rThisMax, rRetries, rMax, rResponse, rRequests, rAnswers, rOutcome>>

\* The resolve request fails in the transport: the error leaves resolve,
\* _fetchRootHash and _performValidation.
ResolveRequestFailed ==
    /\ ValidationOnly
    /\ pPc = "resolveRequest"
    /\ \E e \in TransportErrors :
          /\ pPc' = "raised"
          /\ pOutcome' = Raised(TransportError(e))
    /\ UNCHANGED <<pAssertions, pIndex, pRootHashes, pValidationResult, rvars>>

\* _getResult has ended: an error leaves _performValidation; a result gives
\* the root hash, the proofs of the assertion are gone through, and the
\* outer loop goes to the next assertion.  The frame of _getResult is gone.
RootHashFetched ==
    /\ ValidationOnly
    /\ pPc = "getResult"
    /\ rPc \in {"returned", "raised"}
    /\ IF rOutcome.kind = "raised"
       THEN /\ pPc' = "raised"
            /\ pOutcome' = rOutcome
            /\ UNCHANGED <<pIndex, pRootHashes, pValidationResult>>
       ELSE LET rootHash == RootHashOf(rOutcome.value.data)
            IN /\ pRootHashes' = Append(pRootHashes, rootHash)
               /\ PerformValidationLoopHead(
                      pAssertions, pIndex + 1,
                      pValidationResult
                          \o ValidatedTriples(pAssertions[pIndex].proofs, 1, rootHash))
    /\ rPc' = "idle"
    /\ rOptions' = [handler_id |-> "", operation |-> "", maxNumberOfRetries |-> 0]
    /\ rRetries' = 0
    /\ rMax' = 0
    /\ rResponse' = [status |-> UNDEFINED, data |-> UNDEFINED, message |-> UNDEFINED]
    /\ rRequests' = 0
    /\ rAnswers' = <<>>
    /\ rOutcome' = NoOutcome
    /\ UNCHANGED <<pAssertions, rThisMax>>

ValidationStart ==
    /\ pPc = "idle"
    /\ pAssertions = <<>>
    /\ pIndex = 0
    /\ pRootHashes = <<>>
    /\ pValidationResult = <<>>
    /\ pOutcome = NoOutcome

NextValidation ==
    \/ PerformValidationCall
    \/ ResolveRequestAnswered
    \/ ResolveRequestFailed
    \/ GetResultSettled
    \/ GetResultSlept
    \/ GetResultResponse
    \/ GetResultTransportError
    \/ RootHashFetched

(***************************************************************************)
(* Specifications: one client, constructed with any options, serving one   *)
(* component's invocation.                                                 *)
(***************************************************************************)
InitResolver ==
    /\ \E o \in CtorRetryOptions : ResolverStart(ConstructorMaxNumberOfRetries(o))
    /\ SearchStart(defaultNumberOfResults)
    /\ AssetStart
    /\ CodecStart
    /\ ValidateStart
    /\ ValidationStart

SpecResolver == InitResolver /\ [][NextResolver]_vars

InitSearch ==
    /\ \E o \in CtorResultOptions : SearchStart(ConstructorNumberOfResults(o))
    /\ ResolverStart(defaultMaxNumberOfRetries)
    /\ AssetStart
    /\ CodecStart
    /\ ValidateStart
    /\ ValidationStart

SpecSearch == InitSearch /\ [][NextSearch]_vars

\* One service instance on which a caller issues createAsset invocations
\* without waiting for one to end before it issues the next.
InitAsset ==
    /\ AssetStart
    /\ ResolverStart(defaultMaxNumberOfRetries)
    /\ SearchStart(defaultNumberOfResults)
    /\ CodecStart
    /\ ValidateStart
    /\ ValidationStart

SpecAsset == InitAsset /\ [][NextAsset]_vars

\* One use of the codec: a locator is built and parsed back, or a given text
\* is parsed.
InitCodec ==
    /\ CodecStart
    /\ ResolverStart(defaultMaxNumberOfRetries)
    /\ SearchStart(defaultNumberOfResults)
    /\ AssetStart

    /\ ValidateStart
    /\ ValidationStart

SpecCodec == InitCodec /\ [][NextCodec]_vars

\* One client, constructed with any options, serving one validate call.
InitValidate ==
    /\ ValidateStart
    /\ \E o \in CtorRetryOptions : ResolverStart(ConstructorMaxNumberOfRetries(o))
    /\ SearchStart(defaultNumberOfResults)
    /\ AssetStart
    /\ CodecStart
    /\ ValidationStart

SpecValidate == InitValidate /\ [][NextValidate]_vars

\* One client, constructed with maxNumberOfRetries: 1, serving one
\* _performValidation call.
InitValidation ==
    /\ ValidationStart
    /\ ResolverStart(ConstructorMaxNumberOfRetries(1))
    /\ SearchStart(defaultNumberOfResults)
    /\ AssetStart
    /\ CodecStart
    /\ ValidateStart

SpecValidation == InitValidation /\ [][NextValidation]_vars

(***************************************************************************)
(* Claims about the Operation Result Resolver                              *)
(***************************************************************************)
Last(seq) == seq[Len(seq)]
AllPendingUpTo(n) == \A i \in 1 .. n : rAnswers[i].status = PENDING
RunStarted == rPc \in {"sleep", "request"} \/ rRequests > 0 \/ rOutcome = Raised(RetriesExhaustedError)

\* C1: _getResult never returns a PENDING result: an invocation that ends
\* returns COMPLETED data, or raises on FAILED, on retry exhaustion or on a
\* transport error (an invocation without handle or operation is refused
\* before any status is asked for).
C1_NeverReturnsPending ==
    /\ rOutcome.kind = "returned" =>
          /\ rOutcome.value.status = COMPLETED
          /\ rOutcome.value.data \in Payloads
    /\ rOutcome.kind = "raised" =>
          \/ rOutcome.value = RetriesExhaustedError
          \/ \E m \in Messages : rOutcome.value.text = <<"Get ", rOptions.operation, " failed. Reason: ", m, ".">>
          \/ \E e \in TransportErrors : rOutcome.value = TransportError(e)
          \/ /\ rOutcome.value = MissingArgsError
             /\ rOptions.handler_id = "" \/ rOptions.operation = ""
             /\ rRequests = 0
    /\ rPc \in {"returned", "raised"} <=> rOutcome.kind # "none"

C1_Witness ==
    /\ rOutcome.kind = "returned"
    /\ Len(rAnswers) = 3
    /\ rAnswers[1].status = PENDING

\* C4: when every poll answers PENDING, RetriesExhausted is raised after
\* exactly maxNumberOfRetries + 1 status requests: not before, and no
\* further request is sent.
C4_ExhaustedAfterMaxPlusOne ==
    /\ rOutcome = Raised(RetriesExhaustedError) =>
          /\ rRequests = rMax + 1
          /\ Len(rAnswers) = rMax + 1
          /\ AllPendingUpTo(rMax + 1)
    /\ (RunStarted /\ Len(rAnswers) = rMax + 1 /\ AllPendingUpTo(rMax + 1)) =>
          /\ rOutcome = Raised(RetriesExhaustedError)
          /\ rPc = "raised"
    /\ RunStarted => rRequests <= rMax + 1

C4_Witness ==
    /\ rOutcome = Raised(RetriesExhaustedError)
    /\ rMax = defaultMaxNumberOfRetries
    /\ rRequests = defaultMaxNumberOfRetries + 1

\* C5: k <= maxNumberOfRetries PENDING answers followed by COMPLETED: the
\* COMPLETED payload is returned after exactly k + 1 status requests and no
\* error is raised.
C5_CompletedAfterKPending ==
    /\ (rAnswers # <<>> /\ Last(rAnswers).status = COMPLETED) =>
          /\ rPc = "returned"
          /\ rOutcome = Returned(Last(rAnswers))
          /\ rRequests = Len(rAnswers)
          /\ AllPendingUpTo(Len(rAnswers) - 1)
    /\ (RunStarted /\ Len(rAnswers) <= rMax /\ AllPendingUpTo(Len(rAnswers))) =>
          /\ rOutcome.kind = "none"
          /\ rPc \in {"sleep", "request"}

C5_Witness ==
    /\ rOutcome.kind = "returned"
    /\ rMax = 2
    /\ Len(rAnswers) = 3
    /\ rAnswers[1].status = PENDING /\ rAnswers[2].status = PENDING
    /\ rOutcome.value.data = "payloadB"

\* C6: a poll answered FAILED with message m raises an error carrying m,
\* returns no payload and is the last status request.
C6_FailedRaisesWithMessage ==
    (rAnswers # <<>> /\ Last(rAnswers).status = FAILED) =>
        /\ rPc = "raised"
        /\ rOutcome.kind = "raised"
        /\ rOutcome.value.type = "Error"
        /\ rOutcome.value.text =
              <<"Get ", rOptions.operation, " failed. Reason: ", Last(rAnswers).message, ".">>
        /\ rRequests = Len(rAnswers)

C6_Witness ==
    /\ rAnswers # <<>>
    /\ Last(rAnswers).status = FAILED
    /\ Last(rAnswers).message = "bad request"
    /\ Len(rAnswers) = 2

\* C7: a transport error on a status request reaches the caller at once:
\* the request is not retried, whatever budget remains, and it is the last
\* status request.
C7_TransportErrorPropagates ==
    \A i \in 1 .. Len(rAnswers) :
        rAnswers[i].status = "TRANSPORT_ERROR" =>
            /\ i = Len(rAnswers)
            /\ rPc = "raised"
            /\ rOutcome = Raised(TransportError(rAnswers[i].message))
            /\ rRequests = i

C7_Witness ==
    /\ rAnswers # <<>>
    /\ Last(rAnswers).status = "TRANSPORT_ERROR"
    /\ Len(rAnswers) = 2
    /\ rRetries <= rMax

(***************************************************************************)
(* Claims about the Streaming Search Poller                                *)
(***************************************************************************)
\* fetch j succeeded with a result count that is not below the target
ReachedAt(j) ==
    /\ sFetched[j].error = UNDEFINED
    /\ sFetched[j].data.items >= sTarget

\* C9: while the deadline has not elapsed, the poller stops at the first
\* fetched payload whose count is not below the target: it has performed
\* exactly that many ticks and returns that payload.
C9_StopsAtFirstPayloadReachingTarget ==
    ~sTimeoutFlag =>
        /\ \A j \in 1 .. Len(sFetched) :
              ReachedAt(j) =>
                  /\ j = Len(sFetched)
                  /\ sTicks = j
                  /\ sPc = "returned"
                  /\ sOutcome = Returned(sFetched[j].data)
        /\ sPc = "returned" =>
              /\ sFetched # <<>>
              /\ ReachedAt(Len(sFetched))

C9_Witness ==
    /\ sPc = "returned"
    /\ ~sTimeoutFlag
    /\ sTarget = defaultNumberOfResults
    /\ sTicks = 3
    /\ sFetched[1].data.items = 1
    /\ sFetched[2].data.items = 2
    /\ sOutcome.value.items = defaultNumberOfResults

\* C10: once the deadline has elapsed, the fetch in progress is the last
\* one: when it succeeds the poller returns its payload, whatever the count,
\* without another tick and without raising.
C10_DeadlineEndsPolling ==
    [][ (sTimeoutFlag /\ sPc = "fetch" /\ Len(sFetched') = Len(sFetched) + 1
            /\ Last(sFetched').error = UNDEFINED)
        => /\ sPc' = "returned"
           /\ sOutcome' = Returned(Last(sFetched').data)
           /\ sTicks' = Len(sFetched') ]_vars

C10_Witness ==
    /\ sPc = "returned"
    /\ sTimeoutFlag
    /\ Len(sFetched) = 2
    /\ Last(sFetched).data.items < sTarget
    /\ sOutcome = Returned(Last(sFetched).data)

\* C11: a fetch that fails in the transport is the last tick: the poller
\* raises that error at once, the callback has been invoked for the earlier
\* ticks only, and nothing is returned, the payload fetched before included.
C11_SearchTransportErrorAborts ==
    \A j \in 1 .. Len(sFetched) :
        sFetched[j].error # UNDEFINED =>
            /\ j = Len(sFetched)
            /\ sTicks = j
            /\ sPc = "raised"
            /\ sOutcome = Raised(TransportError(sFetched[j].error))
            /\ Len(sCallbacks) = j - 1
            /\ \A i \in 1 .. j - 1 : sCallbacks[i] = sFetched[i].data

C11_Witness ==
    /\ Len(sFetched) = 2
    /\ sFetched[1].error = UNDEFINED
    /\ sFetched[1].data.items = 1
    /\ sFetched[2].error = "ECONNREFUSED"
    /\ sCallbacks = <<sFetched[1].data>>
    /\ sOutcome.kind = "raised"

\* C21: the callback is invoked once for every fetch that succeeds, with
\* the payload of that fetch, the fetch that ends the polling included: when
\* the poller returns there are as many invocations as fetches and the last
\* argument is the payload returned.
C21_CallbackPerSuccessfulFetch ==
    /\ Len(sCallbacks) = Cardinality({j \in 1 .. Len(sFetched) : sFetched[j].error = UNDEFINED})
    /\ \A j \in 1 .. Len(sCallbacks) : sCallbacks[j] = sFetched[j].data
    /\ sPc = "returned" =>
          /\ Len(sCallbacks) = Len(sFetched)
          /\ Len(sFetched) = sTicks
          /\ sOutcome = Returned(Last(sCallbacks))

C21_Witness ==
    /\ sPc = "returned"
    /\ Len(sCallbacks) = 3
    /\ sCallbacks[1].items = 0
    /\ sCallbacks[2] # sCallbacks[1]
    /\ sCallbacks[3].items = 2
    /\ sTarget = 2
    /\ sOutcome.value = sCallbacks[3]

\* C22: the deadline timer is armed once, when the polling begins; after it
\* has fired at most one more fetch is issued, the one of the sleep that was
\* in progress, and no tick is started after that.
C22_AtMostOneFetchAfterDeadline ==
    /\ sTimerArmed => (~sTimeoutFlag /\ sDeadlineTicks = 0)
    /\ (sPc \in {"sleep", "fetch"} /\ ~sTimeoutFlag) => sTimerArmed
    /\ sTimeoutFlag =>
          /\ sTicks <= sDeadlineTicks + 1
          /\ sPc = "sleep" => sTicks = sDeadlineTicks

C22_Witness ==
    /\ sTimeoutFlag
    /\ sDeadlineTicks = 1
    /\ sTicks = 2
    /\ sPc = "returned"
    /\ sOutcome.value.items < sTarget

(***************************************************************************)
(* Claims about the executors and createAsset                              *)
(***************************************************************************)
ExecuteReturned(o) ==
    op[o].at = "ret" /\ op[o].stage \in {"increaseAllowance", "createAsset"}
ReadReturned(o) ==
    op[o].at = "ret" /\ op[o].stage \in {"AssetRegistry", "UAIRegistry", "Token"}

\* C2: executeContractFunction returns only on success: after n failed
\* attempts and a successful one it has made n + 1 attempts and returns the
\* receipt of the last attempt's broadcast.
C2_ExecutorReturnsOnlyOnSuccess ==
    \A o \in Ops :
        ExecuteReturned(o) =>
            /\ op[o].result.t = "receipt"
            /\ op[o].result = op[o].lastValue
            /\ op[o].tries = op[o].fails + 1

\* C3: callContractFunction returns the value of a successful call, never a
\* placeholder left by a failed one.
C3_ReadReturnsSuccessfulValue ==
    \A o \in Ops :
        ReadReturned(o) =>
            /\ op[o].tries > op[o].fails
            /\ op[o].lastValue # Undefined
            /\ op[o].result = op[o].lastValue

\* C8: the gas estimation, the signature and the broadcast of an operation
\* use the wallet, the private key and the endpoint of the chain that
\* operation selected.
C8_OperationUsesOwnConfiguration ==
    \A o \in Ops :
        op[o].req.kind \in {"estimateGas", "sign", "send"} =>
            LET own == blockchainConfig[op[o].selected]
                req == op[o].req
            IN /\ req.from = own.wallet
               /\ req.kind \in {"estimateGas", "send"} => req.rpc = own.rpc
               /\ req.kind \in {"sign", "send"} => req.key = own.privateKey

\* C14: an invocation that names a chain which is not available, or which
\* has no configuration record, ends at once with the configuration error:
\* no chain is selected for it and no request is sent.
C14_UnknownChainRaisesConfigurationError ==
    \A o \in Ops :
        (/\ op[o].stage # "idle"
         /\ op[o].options # ""
         /\ op[o].options \notin AvailableChains \cap ConfiguredChains) =>
            /\ op[o].outcome = Raised(ConfigurationMissingError)
            /\ op[o].selected = ""
            /\ op[o].req = NoRequest

\* C18: an exception of a chain primitive (read call, gas estimation,
\* encoding, signature, broadcast) never leaves the executor: the executor
\* returns normally, and createAsset raises nothing but its own errors.
C18_ChainCallErrorsNeverSurface ==
    \A o \in Ops :
        /\ op[o].threw # "" =>
              /\ op[o].at = "ret"
              /\ op[o].result = True
              /\ op[o].outcome = NoOutcome
        /\ op[o].outcome.kind = "raised" =>
              op[o].outcome.value \in {ConfigurationMissingError, ReceiptTypeError}

C18_Witness ==
    /\ op["op1"].threw = "send"
    /\ op["op1"].stage = "createAsset"
    /\ op["op1"].at = "ret"
    /\ op["op2"].threw = "call"
    /\ op["op2"].stage = "UAIRegistry"
    /\ op["op2"].at = "ret"

\* the names of the three hub lookups, in the order of initializeContracts
HubLookups == <<"AssetRegistry", "UAIRegistry", "Token">>

\* C19: every createAsset invocation asks the hub for AssetRegistry,
\* UAIRegistry and Token, in that order, each lookup after the one before it
\* has returned, and sends nothing of a transaction before all three have
\* returned.
C19_LookupsBeforeFirstTransaction ==
    \A o \in Ops :
        /\ Len(op[o].lookups) <= Len(HubLookups)
        /\ op[o].lookups = SubSeq(HubLookups, 1, Len(op[o].lookups))
        /\ op[o].req.kind = "call" =>
              /\ op[o].req.name = Last(op[o].lookups)
              /\ op[o].lookupsDone = Len(op[o].lookups) - 1
        /\ op[o].lookupsDone <= Len(op[o].lookups)
        /\ op[o].lookupsDone >= Len(op[o].lookups) - 1
        /\ (\/ op[o].req.kind \in {"estimateGas", "sign", "send"}
            \/ op[o].stage \in {"increaseAllowance", "createAsset", "getTransactionResponse",
                                 "returned"}) =>
              /\ op[o].lookups = HubLookups
              /\ op[o].lookupsDone = Len(HubLookups)

C19_Witness ==
    /\ op["op1"].stage = "returned"
    /\ op["op2"].stage = "increaseAllowance"
    /\ op["op2"].req.kind = "estimateGas"
    /\ op["op2"].lookups = HubLookups
    /\ TokenContract # NoContract

\* C20, as stated: the envelope that is signed carries the estimate when it
\* is not zero and the floor otherwise, and an attempt whose estimation has
\* failed is at its signature or its broadcast with the floor.
C20_FloorWhenEstimationFails ==
    \A o \in Ops :
        /\ op[o].req.kind \in {"sign", "send"} =>
              op[o].req.gas = IF op[o].gasLimit # 0 THEN op[o].gasLimit ELSE GasFloor
        /\ op[o].threw = "estimateGas" =>
              /\ op[o].req.kind \in {"sign", "send"}
              /\ op[o].req.gas = GasFloor

\* C20, amended: the envelope that is signed carries the estimate when it
\* is not zero and the floor when it is zero; an attempt whose estimation
\* fails ends in the catch block: nothing is signed or broadcast in it.
C20_GasLimitIsEstimateOrFloor ==
    \A o \in Ops :
        /\ op[o].req.kind \in {"sign", "send"} =>
              /\ op[o].threw = ""
              /\ op[o].req.gas = IF op[o].gasLimit # 0 THEN op[o].gasLimit ELSE GasFloor
        /\ op[o].threw = "estimateGas" =>
              /\ op[o].at = "ret"
              /\ op[o].req = NoRequest
              /\ op[o].result = True
              /\ op[o].lastValue = Undefined

C20_Witness ==
    /\ op["op1"].req.kind = "send"
    /\ op["op1"].gasLimit = 0
    /\ op["op1"].req.gas = GasFloor
    /\ op["op2"].req.kind = "sign"
    /\ op["op2"].gasLimit # 0
    /\ op["op2"].req.gas = op["op2"].gasLimit

\* C23: createAsset starts its 'createAsset' transaction only when the
\* 'increaseAllowance' executor has returned the receipt of a broadcast, never
\* when every attempt of 'increaseAllowance' has failed.
C23_CreateAssetAfterAllowanceBroadcast ==
    [][ \A o \in Ops :
            (op[o].stage = "increaseAllowance" /\ op'[o].stage = "createAsset") =>
                /\ op[o].result.t = "receipt"
                /\ op[o].result = op[o].lastValue
                /\ op[o].fails < op[o].tries ]_vars

\* C24: a read that succeeds ends callContractFunction, whatever it
\* yields: once a call has answered, a falsy answer included, the executor
\* has returned that answer after that one call.
C24_ReadReturnsAfterOneSuccessfulCall ==
    \A o \in Ops :
        (op[o].stage \in {"AssetRegistry", "UAIRegistry", "Token"}
            /\ op[o].lastValue # Undefined) =>
            /\ op[o].at = "ret"
            /\ op[o].result = op[o].lastValue
            /\ op[o].tries = 1

\* C26: createAsset returns the token id in the logs of the receipt of its
\* own 'createAsset' transaction, so that invocations whose receipts carry
\* different ids return different values.
C26_ReturnsTokenIdOfReceipt ==
    \A o \in Ops :
        op[o].outcome.kind = "returned" =>
            /\ op[o].outcome.value = op[o].receiptId
            /\ \A other \in Ops \ {o} :
                  (op[other].outcome.kind = "returned"
                      /\ op[other].receiptId # op[o].receiptId) =>
                      op[other].outcome.value # op[o].outcome.value

(***************************************************************************)
(* Claims about the UAL codec                                              *)
(***************************************************************************)
\* The chain of the case-normalized input: the reserved prefix for a chain
\* that begins with it, the lower-cased chain otherwise; both ways of
\* reading "begins with" (before or after folding the case) are accepted.
CaseNormalizedChains(chain) ==
    {IF startsWith(chain, Otp) THEN Otp ELSE toLowerCase(chain),
     IF startsWith(toLowerCase(chain), Otp) THEN Otp ELSE toLowerCase(chain)}

\* C12: resolveUAL(deriveUAL(chain, contract, tokenId)) returns the
\* case-normalized input: the normalized chain, the lower-cased contract and
\* the same token id.
C12_UALRoundTrip ==
    uPc = "resolved" =>
        /\ uOutcome.kind = "returned"
        /\ uOutcome.value.blockchain \in CaseNormalizedChains(uInput.blockchain)
        /\ uOutcome.value.contract = toLowerCase(uInput.contract)
        /\ uOutcome.value.tokenId = Number(uInput.tokenId)

\* The text resolveUAL splits on "/": the third ":"-separated part, with the
\* fourth appended when the text has more than three; nothing when the text
\* has fewer than three parts.
Reassembled(ual) ==
    LET segments == split(ual, ":")
    IN IF Len(segments) < 3 THEN <<>>
       ELSE IF Len(segments) = 3 THEN segments[3]
       ELSE segments[3] \o segments[4]
HasThreeSegments(ual) ==
    Len(split(ual, ":")) >= 3 /\ Len(split(Reassembled(ual), "/")) = 3

\* C13: for every text that does not give exactly three "/"-separated
\* segments after reassembly, texts with fewer than three ":"-separated
\* parts included, resolveUAL raises the format error and nothing else.
C13_MalformedUALRaisesFormatError ==
    (uPc \in {"parsed", "resolved"} /\ ~HasThreeSegments(uUal)) =>
        /\ uOutcome.kind = "raised"
        /\ uOutcome.value = UALFormatError(uUal)

(***************************************************************************)
(* Claims about validate and _performValidation                            *)
(***************************************************************************)
\* C15: validate waits for the end of the poll it started for the
\* proofs:get handle, and when that poll returns a COMPLETED result validate
\* does not raise: it goes on to validate the fetched proofs.
C15_ValidateAwaitsProofs ==
    /\ (vOutcome.kind # "none" /\ rPc # "idle") => rPc \in {"returned", "raised"}
    /\ (rOutcome.kind = "returned" /\ rOutcome.value.status = COMPLETED) =>
          vOutcome.kind # "raised"

\* does the inclusion path of obj fold to rootHash
Verifies(obj, rootHash) == obj.proof # NULL /\ RootHashOf(obj.proof) = rootHash

\* C16: the valid flag recorded for a proof is the boolean true when the
\* proof verifies against the root hash fetched for its assertion, and the
\* boolean false when it does not.
C16_ValidFlagIsVerdict ==
    \A j \in 1 .. Len(pValidationResult) :
        LET k == pValidationResult[j].triple[1]
            i == pValidationResult[j].triple[2]
        IN pValidationResult[j].valid =
               IF Verifies(pAssertions[k].proofs[i], pRootHashes[k]) THEN True ELSE False

\* the positions <<assertion, proof>> of the input whose proof is not null
NonNullEntries ==
    UNION {{<<k, i>> : i \in {i \in DOMAIN pAssertions[k].proofs :
                                  pAssertions[k].proofs[i].proof # NULL}} :
              k \in DOMAIN pAssertions}
ComesBefore(a, b) == a[1] < b[1] \/ (a[1] = b[1] /\ a[2] < b[2])

\* C17: _performValidation returns one {triple, valid} record for each proof
\* that is not null, in the order of the assertions and of their proofs, and
\* none for a null proof, which does not make it fail.
C17_OneRecordPerNonNullProof ==
    pPc = "returned" =>
        LET list == pOutcome.value
        IN /\ Len(list) = Cardinality(NonNullEntries)
           /\ \A j \in 1 .. Len(list) :
                 /\ DOMAIN list[j] = {"triple", "valid"}
                 /\ list[j].triple \in NonNullEntries
           /\ \A j1, j2 \in 1 .. Len(list) :
                 j1 < j2 => ComesBefore(list[j1].triple, list[j2].triple)

C17_Witness ==
    /\ pPc = "returned"
    /\ Len(pAssertions) = 2
    /\ Len(pAssertions[1].proofs) = 3
    /\ pAssertions[1].proofs[2].proof = NULL
    /\ Len(pAssertions[2].proofs) = 2
    /\ pAssertions[2].proofs[1].proof = NULL
    /\ Len(pOutcome.value) = 3
    /\ pOutcome.value[3].triple = <<2, 2>>

\* C25: once validate has returned or raised, the poll it started for the
\* proofs:get handle issues no status request any more.
C25_NoRequestAfterValidateEnds ==
    [][ vOutcome.kind # "none" => rRequests' = rRequests ]_vars

====
